---- MODULE Spec2Model ----
(***************************************************************************)
(* Client-side session orchestrator of src/app.js: the conversation        *)
(* session (state.currentConversationId, the #messagesContainer children,  *)
(* the #chatInput value and the outstanding POST /chat requests), the       *)
(* startup sequence of the DOMContentLoaded handler, and the document       *)
(* registry (state.documents) with its upload / delete / explain requests. *)
(*                                                                         *)
(* JavaScript runs one handler at a time; control yields only at an await. *)
(* Every action below is one run-to-completion segment of a handler: from  *)
(* its entry to its first await on the network, or from the resolution of  *)
(* that await to the handler's end.  `await fetch(...)` followed by        *)
(* `await res.json()` is resolved in one step: the code between the two     *)
(* awaits reads and writes no state, so the step commutes with every other *)
(* handler.  Awaits on the local async functions (initPIN, loadDocuments,  *)
(* newConversation) resume in microtasks, before any other handler runs.   *)
(*                                                                         *)
(* Text is a sequence of tokens: user input is a sequence of one-character *)
(* tokens, so that String.prototype.trim is computed; fixed texts of the   *)
(* program are one-token sequences.  #messagesContainer and #chatInput are *)
(* taken to exist in the page (sendMessage and addMessageToUI return at    *)
(* once otherwise).                                                        *)
(***************************************************************************)
EXTENDS Integers, Sequences, FiniteSets, TLC

VARIABLES
    currentConversationId,  \* state.currentConversationId (Null or a string)
    container,              \* children of #messagesContainer, in document order
    input,                  \* #chatInput.value
    chatPending,            \* sendMessage invocations suspended at their await
    pcStartup,              \* position of the DOMContentLoaded handler
    backendStatus,          \* #backendStatus.textContent
    modelStatus,            \* #modelStatus.textContent
    documents,              \* state.documents: property key -> metadata
    documentsList,          \* what #documentsList shows
    docPending,             \* document handlers suspended at their await
    uploadStatus,           \* #uploadStatus.textContent
    statusTimers,           \* setTimeout callbacks of handleDocumentUpload to come
    explanationOutput,      \* what #documentExplanationOutput shows
    lastAlert,              \* the text of the last alert() shown
    acked,                  \* history: ids whose upload the backend has
                            \* acknowledged and whose deletion it has not
    exportPending,          \* exportChat invocations suspended at their await
    downloads,              \* names of the files handed to the user, in order
    currentTab,             \* state.currentTab
    activeButtons,          \* data-tab of the .tab-button elements of class active
    activeContents,         \* tabs whose .tab-content element is of class active
    activeSidebar           \* data-tab of the .sidebar-nav-item elements of class
                            \* active

chatVars == <<currentConversationId, container, input, chatPending>>
healthVars == <<backendStatus, modelStatus>>
docVars == <<documents, documentsList, docPending, uploadStatus, statusTimers,
             explanationOutput, lastAlert, acked>>

exportVars == <<exportPending, downloads>>
tabVars == <<currentTab, activeButtons, activeContents, activeSidebar>>

vars == <<chatVars, pcStartup, healthVars, tabVars, docVars, exportVars>>

----------------------------------------------------------------------------
(* Bounds of the model *)

\* most entries #messagesContainer is let to hold, counting the replies owed
MaxMessages == 4
\* most chat requests outstanding
MaxPending == 2
\* most document requests outstanding, counting the status timers to come
MaxDocPending == 2
\* most files handed to the user, counting the exports outstanding
MaxExports == 1

----------------------------------------------------------------------------
(* Values *)

Null == "null"
ConvIds == {"c1", "c2"}

\* the values the user gives #chatInput: empty, blank, a text with blanks
\* around it, and a text with a blank inside it
Texts == {<<>>, <<" ">>, <<" ", "a", " ">>, <<"a", " ", "a">>}

\* the assistant text a backend returns
ReplyText == <<"reply">>
\* app.js:287
EmptyResponseText == <<"(empty response)">>
\* app.js:292-293
FailureText == <<"Failed to reach LangChain backend. Make sure it's running: python langchain_backend.py">>

\* app.js:243-248: the child carrying data-placeholder="true"
Placeholder == [role |-> "placeholder", text |-> <<"Start a conversation">>]

\* text content of the status elements before the probe has written them
Unset == "unset"

----------------------------------------------------------------------------
(* Pure helpers *)

RECURSIVE trimStart(_)
trimStart(s) ==
    IF s # <<>> /\ Head(s) = " " THEN trimStart(Tail(s)) ELSE s

RECURSIVE trimEnd(_)
trimEnd(s) ==
    IF s # <<>> /\ s[Len(s)] = " " THEN trimEnd(SubSeq(s, 1, Len(s) - 1)) ELSE s

\* mutant of trim: only the leading blanks are removed
trimStartOnly(s) == trimStart(s)

\* mutant of trim: the value is taken as typed
trimNothing(s) == s

\* String.prototype.trim on a value of #chatInput
trim(s) == trimEnd(trimStart(s))

\* obj[k] is truthy, for a field holding an identifier or a label: the key
\* is present and is not the empty string
Truthy(obj, k) == k \in DOMAIN obj /\ obj[k] # ""

\* obj[k] is truthy, for a field holding text
TruthyText(obj, k) == k \in DOMAIN obj /\ obj[k] # <<>>

\* the messages of the session: the children that addMessageToUI appended
IsMessage(c) == c.role # "placeholder"
messages == SelectSeq(container, IsMessage)

\* mutant of addMessageToUI: a single child is cleared whatever it is
addMessageToUIClearsSingle(c, role, text) ==
    Append(IF Len(c) = 1 THEN <<>> ELSE c,
           [role |-> IF role = "user" THEN "user" ELSE "assistant",
            text |-> text])

\* addMessageToUI(role, text) on the children c
addMessageToUI(c, role, text) ==
    LET cleared == IF Len(c) = 1 /\ c[1].role = "placeholder" THEN <<>> ELSE c
    IN  Append(cleared,
               [role |-> IF role = "user" THEN "user" ELSE "assistant",
                text |-> text])

\* mutant of requestConversationId: the request never carries the id
requestConversationIdNull(id) == Null

\* body.conversation_id of the chat request: state.currentConversationId || null
requestConversationId(id) == IF id # Null /\ id # "" THEN id ELSE Null

\* removal of the i-th element of a sequence
RemoveAt(s, i) == SubSeq(s, 1, i - 1) \o SubSeq(s, i + 1, Len(s))

----------------------------------------------------------------------------
(* Backend answers to POST /chat *)

EmptyObject == <<>>

ChatObjects ==
    {EmptyObject, [response |-> ReplyText]}
    \cup {[conversation_id |-> c] : c \in ConvIds}
    \cup {[response |-> ReplyText, conversation_id |-> c] : c \in ConvIds}

\* status: "neterr" (fetch rejects), "ok" (res.ok), "notok";
\* json: what res.json() does: "throws", "null" (the body is the JSON null)
\*       or "object" (the body is the object data)
ChatOutcomes ==
    {[status |-> "neterr", json |-> "throws", data |-> EmptyObject]}
    \cup {[status |-> "notok", json |-> j, data |-> EmptyObject] :
              j \in {"throws", "object"}}
    \cup {[status |-> "ok", json |-> j, data |-> EmptyObject] :
              j \in {"throws", "null"}}
    \cup {[status |-> "ok", json |-> "object", data |-> d] : d \in ChatObjects}

\* data after `await res.json().catch(() => ({}))`
chatData(o) == IF o.json = "throws" THEN EmptyObject ELSE o.data

\* mutant of chatThrows: res.ok is not looked at
chatThrowsIgnoringStatus(o) == o.status = "neterr" \/ o.json = "null"

\* the try block of sendMessage throws: fetch rejected, !res.ok, or a
\* property of null is read
chatThrows(o) ==
    \/ o.status = "neterr"
    \/ o.status = "notok"
    \/ o.json = "null"

----------------------------------------------------------------------------
(* Startup *)

ProbeOutcomes ==
    {[status |-> "neterr", json |-> "throws", data |-> EmptyObject]}
    \cup {[status |-> s, json |-> j, data |-> EmptyObject] :
              s \in {"ok", "notok"}, j \in {"throws", "null", "object"}}
    \cup {[status |-> s, json |-> "object", data |-> [model |-> "llama3"]] :
              s \in {"ok", "notok"}}

\* the tabs of the page: activeTab of the data model
TabNames == {"chat", "documents", "quiz"}

\* data-tab of the .tab-button elements, of the .sidebar-nav-item elements,
\* and the names t for which the page has an element of id <t>Tab
ButtonTabs == TabNames
SidebarTabs == TabNames
ContentTabs == TabNames

\* the markup shows the tab state.currentTab starts with
InitialTab == {"chat"}

\* mutant of probeThrows: a rejected fetch is not caught
probeThrowsOnBodyOnly(o) == o.status # "neterr" /\ o.json # "object"

\* checkSystemStatus: the catch block runs when fetch rejects, res.json()
\* rejects, or data.model is read of null
probeThrows(o) == o.status = "neterr" \/ o.json # "object"

Init ==
    /\ currentConversationId = Null
    /\ container \in {<<>>, <<Placeholder>>}
    /\ input = <<>>
    /\ chatPending = <<>>
    /\ pcStartup = "probe"
    /\ backendStatus = Unset
    /\ modelStatus = Unset
    /\ documents = EmptyObject
    /\ documentsList = Unset
    /\ docPending = <<>>
    /\ uploadStatus = Unset
    /\ statusTimers = 0
    /\ explanationOutput = Unset
    /\ lastAlert = Unset
    /\ acked = {}
    /\ exportPending = <<>>
    /\ downloads = <<>>
    /\ currentTab = "chat"
    /\ activeButtons = InitialTab
    /\ activeContents = InitialTab
    /\ activeSidebar = InitialTab

\* newConversation: state.currentConversationId = null
resetConversationId(id) == Null

\* mutant of resetContainer: the children are left in place
resetContainerKeeps(c) == c

\* newConversation: container.innerHTML = the placeholder markup
resetContainer(c) == <<Placeholder>>

\* every request issued before a reset belongs to a superseded session
Superseded(p) == [i \in 1..Len(p) |-> [p[i] EXCEPT !.stale = TRUE]]

\* loadDocuments: state.documents = {}
loadedDocuments(docs) == EmptyObject

\* DOMContentLoaded handler, from the resolution of the probe to its end:
\* checkSystemStatus' second half, initPIN, loadDocuments, newConversation
StartupResume(o) ==
    /\ pcStartup = "probe"
    /\ pcStartup' = "done"
    /\ backendStatus' = IF probeThrows(o) THEN "Offline" ELSE "Online"
    /\ modelStatus' = IF probeThrows(o) THEN "-"
                      ELSE IF Truthy(o.data, "model") THEN o.data.model
                      ELSE "Unknown model"
    /\ currentConversationId' = resetConversationId(currentConversationId)
    /\ container' = resetContainer(container)
    /\ chatPending' = Superseded(chatPending)
    /\ documents' = loadedDocuments(documents)
    /\ documentsList' = "disabled"
    /\ UNCHANGED <<input, docPending, uploadStatus, statusTimers, exportVars,
                   tabVars,
                   explanationOutput, lastAlert, acked>>

----------------------------------------------------------------------------
(* Conversation session *)

\* the user edits #chatInput
TypeInput(v) ==
    /\ input' = v
    /\ UNCHANGED <<currentConversationId, container, chatPending, pcStartup,
                   healthVars, tabVars, docVars, exportVars>>

\* room for the user message and for the reply of every outstanding request
HasRoom ==
    /\ Len(chatPending) < MaxPending
    /\ Len(messages) + Len(chatPending) + 2 <= MaxMessages

\* sendMessage, from entry to `await fetch`
SendMessage ==
    LET message == trim(input) IN
    IF message = <<>>
    THEN UNCHANGED vars
    ELSE /\ HasRoom
         /\ input' = <<>>
         /\ container' = addMessageToUI(container, "user", message)
         /\ chatPending' = Append(chatPending,
                [message |-> message,
                 conversation_id |-> requestConversationId(currentConversationId),
                 stale |-> FALSE])
         /\ UNCHANGED <<currentConversationId, pcStartup, healthVars, tabVars, docVars, exportVars>>

\* state.currentConversationId after a response whose body is data
adoptConversationId(id, data) ==
    IF Truthy(data, "conversation_id") THEN data.conversation_id ELSE id

\* the assistant text of a response that did not throw
assistantText(data) ==
    IF TruthyText(data, "response") THEN data.response ELSE EmptyResponseText

\* sendMessage, from the resolution of its request to its end
ChatResponse(i, o) ==
    /\ i \in 1..Len(chatPending)
    /\ chatPending' = RemoveAt(chatPending, i)
    /\ IF chatThrows(o)
       THEN /\ container' = addMessageToUI(container, "assistant", FailureText)
            /\ UNCHANGED currentConversationId
       ELSE /\ currentConversationId' =
                   adoptConversationId(currentConversationId, chatData(o))
            /\ container' = addMessageToUI(container, "assistant",
                                           assistantText(chatData(o)))
    /\ UNCHANGED <<input, pcStartup, healthVars, tabVars, docVars, exportVars>>

\* one of the outstanding requests resolves, with any answer of the backend
ChatResolve ==
    \E i \in 1..Len(chatPending), o \in ChatOutcomes : ChatResponse(i, o)

\* newConversation, from the #newConvBtn listener
NewConversation ==
    /\ currentConversationId' = resetConversationId(currentConversationId)
    /\ container' = resetContainer(container)
    /\ chatPending' = Superseded(chatPending)
    /\ UNCHANGED <<input, pcStartup, healthVars, tabVars, docVars, exportVars>>

----------------------------------------------------------------------------
(* Document store *)

DocIds == {"d1", "d2"}

\* the value of a property that is not there
JsUndefined == [undefined |-> TRUE]

Metas ==
    {[filename |-> f, file_size_mb |-> "1.2", upload_time |-> "2024-01-01T00:00:00Z"] :
        f \in {"a.pdf", "b.pdf"}}

\* obj[k], or undefined when obj has no property k
Get(obj, k) == IF k \in DOMAIN obj THEN obj[k] ELSE JsUndefined

\* mutant of Put: the assignment drops the other keys
PutReplacesAll(obj, k, v) == [x \in {k} |-> v]

\* obj after `obj[k] = v`
Put(obj, k, v) == [x \in DOMAIN obj \cup {k} |-> IF x = k THEN v ELSE obj[x]]

\* mutant of Delete: a key that is not there takes another entry with it
DeleteSomeEntry(obj, k) ==
    IF k \in DOMAIN obj \/ DOMAIN obj = {}
    THEN [x \in DOMAIN obj \ {k} |-> obj[x]]
    ELSE [x \in DOMAIN obj \ {CHOOSE y \in DOMAIN obj : TRUE} |-> obj[x]]

\* obj after `delete obj[k]`
Delete(obj, k) == [x \in DOMAIN obj \ {k} |-> obj[x]]

\* renderDocuments throws: doc.filename is read of an entry that is undefined
renderThrows(docs) == \E k \in DOMAIN docs : docs[k] = JsUndefined

\* renderDocuments: what #documentsList shows when it does not throw, the
\* "No documents uploaded yet" text or one item for each entry
renderDocuments(docs) == IF DOMAIN docs = {} THEN "empty" ELSE "items"

DocRequests ==
    {[op |-> "upload", doc_id |-> ""]}
    \cup {[op |-> o, doc_id |-> d] : o \in {"delete", "explain"}, d \in DocIds}

\* room for one more request, and for the status timer it may start
HasDocRoom == Len(docPending) + statusTimers < MaxDocPending

\* success bodies of the upload endpoint: as documented, and without the
\* metadata
UploadObjects ==
    {[doc_id |-> d, metadata |-> m] : d \in DocIds, m \in Metas}
    \cup {[doc_id |-> d] : d \in DocIds}

ErrorObjects == {EmptyObject, [detail |-> "File too large"]}

UploadOutcomes ==
    {[status |-> "neterr", json |-> "throws", data |-> EmptyObject]}
    \cup {[status |-> "notok", json |-> "object", data |-> d] : d \in ErrorObjects}
    \cup {[status |-> s, json |-> j, data |-> EmptyObject] :
              s \in {"ok", "notok"}, j \in {"throws", "null"}}
    \cup {[status |-> "ok", json |-> "object", data |-> d] : d \in UploadObjects}

\* handleDocumentUpload throws before it writes the registry: fetch or
\* res.json() rejects, a property of null is read, or !res.ok
uploadThrows(o) == o.status # "ok" \/ o.json # "object"

\* handleDocumentUpload, from entry to `await fetch`
HandleDocumentUpload ==
    /\ HasDocRoom
    /\ uploadStatus' = "Uploading..."
    /\ docPending' = Append(docPending, [op |-> "upload", doc_id |-> ""])
    /\ UNCHANGED <<chatVars, pcStartup, healthVars, tabVars, exportVars, documents, documentsList,
                   statusTimers, explanationOutput, lastAlert, acked>>

\* mutant of uploadedDocuments: a failed upload empties the registry
uploadedDocumentsClearsOnFailure(docs, o) ==
    IF uploadThrows(o) THEN EmptyObject
    ELSE Put(docs, o.data.doc_id, Get(o.data, "metadata"))

\* state.documents after a response of the upload endpoint
uploadedDocuments(docs, o) ==
    IF uploadThrows(o) THEN docs
    ELSE Put(docs, o.data.doc_id, Get(o.data, "metadata"))

\* handleDocumentUpload, from the resolution of its request to its end
UploadResponse(i, o) ==
    /\ i \in 1..Len(docPending)
    /\ docPending[i].op = "upload"
    /\ docPending' = RemoveAt(docPending, i)
    /\ documents' = uploadedDocuments(documents, o)
    /\ IF uploadThrows(o) \/ renderThrows(documents')
       THEN /\ uploadStatus' = "Upload failed"
            /\ UNCHANGED <<documentsList, statusTimers>>
       ELSE /\ documentsList' = renderDocuments(documents')
            /\ uploadStatus' = "Uploaded successfully"
            /\ statusTimers' = statusTimers + 1
    /\ acked' = IF o.status = "ok" /\ o.json = "object"
                THEN acked \cup {o.data.doc_id}
                ELSE acked
    /\ UNCHANGED <<chatVars, pcStartup, healthVars, tabVars, exportVars, explanationOutput, lastAlert>>

UploadResolve ==
    \E i \in 1..Len(docPending), o \in UploadOutcomes : UploadResponse(i, o)

\* the callback handleDocumentUpload gave to setTimeout
StatusTimerFires ==
    /\ statusTimers > 0
    /\ statusTimers' = statusTimers - 1
    /\ uploadStatus' = ""
    /\ UNCHANGED <<chatVars, pcStartup, healthVars, tabVars, exportVars, documents, documentsList,
                   docPending, explanationOutput, lastAlert, acked>>

\* deleteDocument, from entry to `await fetch`; confirmed is what confirm()
\* returned
DeleteDocument(doc_id, confirmed) ==
    IF ~confirmed
    THEN UNCHANGED vars
    ELSE /\ HasDocRoom
         /\ docPending' = Append(docPending, [op |-> "delete", doc_id |-> doc_id])
         /\ UNCHANGED <<chatVars, pcStartup, healthVars, tabVars, exportVars, documents, documentsList,
                        uploadStatus, statusTimers, explanationOutput, lastAlert,
                        acked>>

DeleteOutcomes == {"neterr", "ok", "notok"}

\* mutant of deletedDocuments: res.ok is not looked at
deletedDocumentsAnyStatus(docs, doc_id, status) ==
    IF status = "neterr" THEN docs ELSE Delete(docs, doc_id)

\* state.documents after a response of the delete endpoint
deletedDocuments(docs, doc_id, status) ==
    IF status = "ok" THEN Delete(docs, doc_id) ELSE docs

\* deleteDocument, from the resolution of its request to its end
DeleteResponse(i, status) ==
    /\ i \in 1..Len(docPending)
    /\ docPending[i].op = "delete"
    /\ docPending' = RemoveAt(docPending, i)
    /\ documents' = deletedDocuments(documents, docPending[i].doc_id, status)
    /\ CASE status = "neterr" ->
              /\ lastAlert' = "Error deleting document: Failed to fetch"
              /\ UNCHANGED documentsList
         [] status = "notok" ->
              /\ lastAlert' = "Error deleting document: Delete failed"
              /\ UNCHANGED documentsList
         [] OTHER ->
              IF renderThrows(documents')
              THEN /\ lastAlert' = "Error deleting document: Cannot read properties of undefined"
                   /\ UNCHANGED documentsList
              ELSE /\ documentsList' = renderDocuments(documents')
                   /\ UNCHANGED lastAlert
    /\ acked' = IF status = "ok" THEN acked \ {docPending[i].doc_id} ELSE acked
    /\ UNCHANGED <<chatVars, pcStartup, healthVars, tabVars, exportVars, uploadStatus, statusTimers,
                   explanationOutput>>

DeleteResolve ==
    \E i \in 1..Len(docPending), st \in DeleteOutcomes : DeleteResponse(i, st)

\* explainDocument, from entry to `await fetch`
ExplainDocument(doc_id) ==
    /\ HasDocRoom
    /\ explanationOutput' = "Generating explanation..."
    /\ docPending' = Append(docPending, [op |-> "explain", doc_id |-> doc_id])
    /\ UNCHANGED <<chatVars, pcStartup, healthVars, tabVars, exportVars, documents, documentsList,
                   uploadStatus, statusTimers, lastAlert, acked>>

ExplainOutcomes ==
    {[status |-> "neterr", json |-> "throws", data |-> EmptyObject]}
    \cup {[status |-> "notok", json |-> "object", data |-> d] : d \in ErrorObjects}
    \cup {[status |-> "ok", json |-> "throws", data |-> EmptyObject]}
    \cup {[status |-> "ok", json |-> "object",
           data |-> [filename |-> "a.pdf", explanation |-> ReplyText]]}

\* what #documentExplanationOutput shows after a response
explained(o) ==
    CASE o.status = "neterr" -> "Failed to explain document: Failed to fetch"
      [] o.json = "throws" -> "Failed to explain document: Unexpected token"
      [] o.status = "notok" /\ Truthy(o.data, "detail") ->
              "Failed to explain document: File too large"
      [] o.status = "notok" -> "Failed to explain document: Explanation failed"
      [] OTHER -> "a.pdf - Explanation"

\* mutant of explainedDocuments: an explanation that fails forgets the document
explainedDocumentsDropsOnFailure(docs, doc_id, o) ==
    IF o.status = "ok" /\ o.json = "object" THEN docs ELSE Delete(docs, doc_id)

\* state.documents after a response of the explain endpoint: explainDocument
\* has no statement that writes it
explainedDocuments(docs, doc_id, o) == docs

\* explainDocument, from the resolution of its request to its end
ExplainResponse(i, o) ==
    /\ i \in 1..Len(docPending)
    /\ docPending[i].op = "explain"
    /\ docPending' = RemoveAt(docPending, i)
    /\ documents' = explainedDocuments(documents, docPending[i].doc_id, o)
    /\ explanationOutput' = explained(o)
    /\ UNCHANGED <<chatVars, pcStartup, healthVars, tabVars, exportVars, documentsList,
                   uploadStatus, statusTimers, lastAlert, acked>>

ExplainResolve ==
    \E i \in 1..Len(docPending), o \in ExplainOutcomes : ExplainResponse(i, o)

----------------------------------------------------------------------------
(* Tabs *)

\* switchTab: btn.classList.toggle("active", btn.dataset.tab === tabName) on
\* every .tab-button
toggledButtons(tabName) == {b \in ButtonTabs : b = tabName}

\* mutant of switchedContents: the class is not removed from the others
switchedContentsKeeps(active, tabName) == active \cup ({tabName} \cap ContentTabs)

\* switchTab: the class is removed from every .tab-content, then added to the
\* element of id <tabName>Tab if there is one
switchedContents(active, tabName) == {c \in ContentTabs : c = tabName}

\* switchTab(tabName)
switchTab(tabName) ==
    /\ currentTab' = tabName
    /\ activeButtons' = toggledButtons(tabName)
    /\ activeContents' = switchedContents(activeContents, tabName)

\* the click listener of the .tab-button of data-tab t
TabButtonClick(t) ==
    /\ t \in ButtonTabs
    /\ switchTab(t)
    /\ UNCHANGED <<chatVars, pcStartup, healthVars, docVars, exportVars, activeSidebar>>

\* the click listener of the .sidebar-nav-item of data-tab t
SidebarItemClick(t) ==
    /\ t \in SidebarTabs
    /\ activeSidebar' = {t}
    /\ switchTab(t)
    /\ UNCHANGED <<chatVars, pcStartup, healthVars, docVars, exportVars>>

----------------------------------------------------------------------------
(* Export *)

\* `conversation_${id}.md`; a null id reads "null" in the template
exportFileName(id) == <<"conversation_", id, ".md">>

\* mutant of hasConversation: the guard lets every id through
hasConversationAlways(id) == TRUE

\* the guard of exportChat: state.currentConversationId is truthy
hasConversation(id) == id # Null /\ id # ""

\* room for one more request, and for the file it may hand over
HasExportRoom == Len(exportPending) + Len(downloads) < MaxExports

\* exportChat, from entry to `await fetch`; the request is POST
\* /chat/<id>/export
ExportChat ==
    IF ~hasConversation(currentConversationId)
    THEN /\ lastAlert' = "No conversation to export."
         /\ UNCHANGED <<chatVars, pcStartup, healthVars, tabVars, documents, documentsList,
                        docPending, uploadStatus, statusTimers, explanationOutput,
                        acked, exportVars>>
    ELSE /\ HasExportRoom
         /\ exportPending' = Append(exportPending, [id |-> currentConversationId])
         /\ UNCHANGED <<chatVars, pcStartup, healthVars, tabVars, docVars, downloads>>

\* "neterr": fetch rejects; "notok": !res.ok; "blobfails": res.blob() rejects;
\* "ok": the blob arrives
ExportOutcomes == {"neterr", "notok", "blobfails", "ok"}

\* the alert exportChat shows after a response, if any
exportAlert(o, alert) ==
    CASE o = "neterr" -> "Export failed: Failed to fetch"
      [] o = "notok" -> "Failed to export chat."
      [] o = "blobfails" -> "Export failed: Failed to read the body"
      [] OTHER -> alert

\* mutant of exported: a response that is not a success hands over a file
exportedOnAnyStatus(files, o, id) ==
    IF o \in {"ok", "notok"} THEN Append(files, exportFileName(id)) ELSE files

\* the files handed to the user after a response: a.download, a.click()
exported(files, o, id) ==
    IF o = "ok" THEN Append(files, exportFileName(id)) ELSE files

\* exportChat, from the resolution of its request to its end; the file name
\* is built from state.currentConversationId as it is now
ExportResponse(i, o) ==
    /\ i \in 1..Len(exportPending)
    /\ exportPending' = RemoveAt(exportPending, i)
    /\ lastAlert' = exportAlert(o, lastAlert)
    /\ downloads' = exported(downloads, o, currentConversationId)
    /\ UNCHANGED <<chatVars, pcStartup, healthVars, tabVars, documents, documentsList,
                   docPending, uploadStatus, statusTimers, explanationOutput,
                   acked>>

ExportResolve ==
    \E i \in 1..Len(exportPending), o \in ExportOutcomes : ExportResponse(i, o)

----------------------------------------------------------------------------
(* The conversation session with the startup sequence *)
Next ==
    \/ \E o \in ProbeOutcomes : StartupResume(o)
    \/ \E v \in Texts : TypeInput(v)
    \/ SendMessage
    \/ ChatResolve
    \/ NewConversation

Spec == Init /\ [][Next]_vars

(* The document store with the startup sequence *)
NextDocs ==
    \/ \E o \in ProbeOutcomes : StartupResume(o)
    \/ HandleDocumentUpload
    \/ UploadResolve
    \/ StatusTimerFires
    \/ \E d \in DocIds, c \in BOOLEAN : DeleteDocument(d, c)
    \/ DeleteResolve

SpecDocs == Init /\ [][NextDocs]_vars

\* the answer of a healthy backend to the probe
HealthyProbe == [status |-> "ok", json |-> "object", data |-> [model |-> "llama3"]]

\* the answers to an upload that keep to the wire contract: no answer at all,
\* a failure with a JSON object that may carry detail, a success with doc_id
\* and metadata
ContractUploadOutcomes ==
    {o \in UploadOutcomes :
        \/ o.status = "neterr"
        \/ o.status = "notok" /\ o.json = "object"
        \/ o.status = "ok" /\ o.json = "object" /\ "metadata" \in DOMAIN o.data}

(* The document store with explanations, against a healthy backend that     *)
(* keeps to the wire contract on uploads                                    *)
NextExplain ==
    \/ StartupResume(HealthyProbe)
    \/ HandleDocumentUpload
    \/ \E i \in 1..Len(docPending), o \in ContractUploadOutcomes : UploadResponse(i, o)
    \/ StatusTimerFires
    \/ \E d \in DocIds, c \in BOOLEAN : DeleteDocument(d, c)
    \/ DeleteResolve
    \/ \E d \in DocIds : ExplainDocument(d)
    \/ ExplainResolve

SpecExplain == Init /\ [][NextExplain]_vars

\* the answers to a chat request that keep to the wire contract: no answer at
\* all, or a success with the reply and the conversation id
ContractChatOutcomes ==
    {o \in ChatOutcomes :
        \/ o.status = "neterr"
        \/ /\ o.status = "ok"
           /\ o.json = "object"
           /\ {"response", "conversation_id"} \subseteq DOMAIN o.data}

(* The conversation session with exports, against a healthy backend that    *)
(* keeps to the wire contract on chat; the user types one message           *)
NextExport ==
    \/ StartupResume(HealthyProbe)
    \/ TypeInput(<<"a", " ", "a">>)
    \/ SendMessage
    \/ \E i \in 1..Len(chatPending), o \in ContractChatOutcomes : ChatResponse(i, o)
    \/ NewConversation
    \/ ExportChat
    \/ ExportResolve

SpecExport == Init /\ [][NextExport]_vars

(* The conversation session with the tabs, against a healthy backend that   *)
(* keeps to the wire contract on chat; the user types one message           *)
NextTabs ==
    \/ StartupResume(HealthyProbe)
    \/ TypeInput(<<"a", " ", "a">>)
    \/ SendMessage
    \/ \E i \in 1..Len(chatPending), o \in ContractChatOutcomes : ChatResponse(i, o)
    \/ NewConversation
    \/ \E t \in TabNames : TabButtonClick(t)
    \/ \E t \in TabNames : SidebarItemClick(t)

SpecTabs == Init /\ [][NextTabs]_vars

----------------------------------------------------------------------------
(* Vocabulary of the properties, stated without the helpers of the model *)

\* s holds nothing but blanks
Blank(s) == \A k \in 1..Len(s) : s[k] = " "

\* m is s without the blanks that surround it
IsTrimOf(m, s) ==
    /\ m # <<>>
    /\ m[1] # " "
    /\ m[Len(m)] # " "
    /\ \E a, b \in 0..Len(s) :
          /\ a + b + Len(m) = Len(s)
          /\ \A k \in 1..Len(m) : m[k] = s[a + k]
          /\ \A k \in 1..a : s[k] = " "
          /\ \A k \in (Len(s) - b + 1)..Len(s) : s[k] = " "

\* the contiguous pieces of the texts the user gives
Trimmed ==
    UNION {{SubSeq(s, a, b) : a \in 1..(Len(s) + 1), b \in 0..Len(s)} : s \in Texts}

UserEntry(m) == [role |-> "user", text |-> m]
AssistantEntry(t) == [role |-> "assistant", text |-> t]

\* a step of sendMessage that gets past its early returns
SendStep == SendMessage /\ ~Blank(input)

\* a step in which newConversation runs: the button, or the end of startup
ResetStep == NewConversation \/ \E o \in ProbeOutcomes : StartupResume(o)

\* a step that resolves a chat request with an outcome satisfying P
ResponseStep(P(_)) ==
    \E i \in 1..Len(chatPending), o \in ChatOutcomes : P(o) /\ ChatResponse(i, o)

AnyOutcome(o) == TRUE
FailedOutcome(o) == o.status \in {"neterr", "notok"}
MalformedOutcome(o) ==
    /\ o.status = "ok"
    /\ \/ o.json \in {"throws", "null"}
       \/ "response" \notin DOMAIN o.data

----------------------------------------------------------------------------
(* C1: a send issued while another send's request is pending is rejected,   *)
(* so at most one chat request is outstanding in every reachable state.     *)
C1_AtMostOneOutstanding == Len(chatPending) <= 1

(* C2: within one session the conversation id changes exactly once, from    *)
(* None to the first value the backend returns; once it is set, no step but *)
(* a reset changes it, also when a later response carries another id.       *)
C2_IdAssignedOnce ==
    [][(currentConversationId # Null /\ currentConversationId' # Null)
          => currentConversationId' = currentConversationId]_vars

(* C3, as stated: the user entry of every outstanding request is present in *)
(* messages in every state in which the request is outstanding.             *)
C3_EntryPresentWhileOutstanding ==
    \A i \in 1..Len(chatPending) :
        \E j \in 1..Len(messages) : messages[j] = UserEntry(chatPending[i].message)

(* C3, amended: a send whose trimmed text m is non-empty appends exactly    *)
(* one user entry with text m in the step that issues the request, and the  *)
(* entry is present in every state in which the request is outstanding and  *)
(* no reset has happened since it was issued.                               *)
C3_UserEntryAppendedAtIssue ==
    /\ [][SendStep =>
            \E m \in Trimmed :
               /\ IsTrimOf(m, input)
               /\ messages' = Append(messages, UserEntry(m))
               /\ Len(chatPending') = Len(chatPending) + 1
               /\ chatPending'[Len(chatPending')].message = m]_vars
    /\ [](\A i \in 1..Len(chatPending) :
            ~chatPending[i].stale =>
               \E j \in 1..Len(messages) :
                   messages[j] = UserEntry(chatPending[i].message))

C3_Witness ==
    /\ Len(messages) >= 3
    /\ messages[Len(messages)] = UserEntry(<<"a", " ", "a">>)
    /\ \E i \in 1..Len(chatPending) :
          /\ ~chatPending[i].stale
          /\ chatPending[i].message = <<"a", " ", "a">>

(* C4: when a send fails (network error or non-success status) nothing is  *)
(* removed from messages, exactly one assistant entry with the fixed        *)
(* failure text is appended, the conversation id is unchanged, and the next *)
(* send is accepted.                                                        *)
C4_FailureDegrades ==
    /\ [][\/ /\ messages' = Append(messages, AssistantEntry(FailureText))
               /\ currentConversationId' = currentConversationId
               /\ input' = input
            \/ ~ResponseStep(FailedOutcome)]_vars
    /\ []((~Blank(input) /\ HasRoom) => ENABLED SendStep)

C4_Witness ==
    \E j \in 1..Len(messages) :
        /\ j + 2 <= Len(messages)
        /\ messages[j] = AssistantEntry(FailureText)
        /\ messages[j + 1].role = "user"
        /\ messages[j + 2] = AssistantEntry(ReplyText)

(* C5: a response with a success status whose body is malformed is handled  *)
(* as a failure: the assistant entry appended is the fixed failure text and *)
(* the conversation id is not changed.                                      *)
C5_MalformedBodyIsFailure ==
    [][ResponseStep(MalformedOutcome) =>
          /\ messages' = Append(messages, AssistantEntry(FailureText))
          /\ currentConversationId' = currentConversationId]_vars

(* C6: a send whose text is empty after trimming changes nothing: messages, *)
(* the conversation id and the input stay as they are and no request is     *)
(* issued.                                                                  *)
C6_BlankSendIsNoop ==
    [][(SendMessage /\ Blank(input)) =>
          UNCHANGED <<container, currentConversationId, input, chatPending>>]_vars

C6_Witness ==
    /\ input = <<" ">>
    /\ Len(messages) = 2
    /\ chatPending = <<>>
    /\ currentConversationId \in ConvIds

(* C7: every accepted send issues exactly one chat request, which carries   *)
(* the trimmed message and the conversation id of that moment (null when    *)
(* there is none); the resolution of a request, failed or not, issues none. *)
C7_OneRequestPerSend ==
    [][/\ SendStep =>
            \E m \in Trimmed :
               /\ IsTrimOf(m, input)
               /\ chatPending' = Append(chatPending,
                      [message |-> m,
                       conversation_id |-> currentConversationId,
                       stale |-> FALSE])
       /\ Len(chatPending') = Len(chatPending) - 1 \/ ~ResponseStep(AnyOutcome)
       /\ Len(chatPending') > Len(chatPending) => SendStep]_vars

C7_Witness ==
    /\ Len(messages) >= 2
    /\ messages[Len(messages) - 1] = AssistantEntry(FailureText)
    /\ messages[Len(messages)] = UserEntry(<<"a">>)
    /\ chatPending = <<[message |-> <<"a">>,
                        conversation_id |-> currentConversationId,
                        stale |-> FALSE]>>
    /\ currentConversationId \in ConvIds

(* C8: reset is always possible, sets the conversation id to None, clears   *)
(* messages and issues no request.                                          *)
C8_ResetClears ==
    /\ [][NewConversation =>
            /\ currentConversationId' = Null
            /\ messages' = <<>>
            /\ Len(chatPending') = Len(chatPending)]_vars
    /\ [](ENABLED NewConversation)

C8_Witness ==
    /\ pcStartup = "done"
    /\ currentConversationId = Null
    /\ messages = <<>>
    /\ \E i \in 1..Len(chatPending) :
          chatPending[i].stale /\ chatPending[i].conversation_id \in ConvIds

(* C9: between two resets messages is append-only: a step that is no reset  *)
(* leaves messages as it is or adds one entry at its end.                   *)
C9_AppendOnly ==
    [][\/ ResetStep
       \/ messages' = messages
       \/ /\ Len(messages') = Len(messages) + 1
          /\ SubSeq(messages', 1, Len(messages)) = messages]_vars

C9_Witness ==
    /\ Len(messages) = 4
    /\ messages[1] = messages[3]
    /\ messages[2] = messages[4]

(* C10: in every reachable state a document id is in the registry if and    *)
(* only if the backend has acknowledged its upload and has not since        *)
(* acknowledged its deletion.                                               *)
C10_RegistryMatchesAcknowledged ==
    \A d \in DocIds : (d \in DOMAIN documents) <=> (d \in acked)

----------------------------------------------------------------------------
(* Vocabulary of the document properties *)

\* the registry q is p with the entry of k set to v and nothing else changed
IsInsertion(q, p, k, v) ==
    /\ DOMAIN q = DOMAIN p \cup {k}
    /\ q[k] = v
    /\ \A x \in DOMAIN p \ {k} : q[x] = p[x]

\* the registry q is p without the entry of k and nothing else changed
IsRemoval(q, p, k) ==
    /\ DOMAIN q = DOMAIN p \ {k}
    /\ \A x \in DOMAIN q : q[x] = p[x]

\* the upload failed: network error, non-success status, unparsable body
UploadFailed(o) == o.status \in {"neterr", "notok"} \/ o.json = "throws"

\* the upload succeeded with the documented body
UploadSucceeded(o) ==
    /\ o.status = "ok"
    /\ o.json = "object"
    /\ {"doc_id", "metadata"} \subseteq DOMAIN o.data

\* this step resolves an upload with the answer o
UploadStep(o) == \E i \in 1..Len(docPending) : UploadResponse(i, o)

DeleteErrorAlerts ==
    {"Error deleting document: Failed to fetch",
     "Error deleting document: Delete failed"}

(* C11: upload inserts the returned doc_id with its metadata when the       *)
(* backend responds with success; on a network error, a non-success status  *)
(* or an unparsable body the registry is exactly as it was.                 *)
C11_UploadInsertsOnSuccessOnly ==
    [][\A o \in UploadOutcomes :
          \/ /\ UploadFailed(o)
             /\ documents' = documents
          \/ /\ UploadSucceeded(o)
             /\ IsInsertion(documents', documents, o.data.doc_id, o.data.metadata)
          \/ ~UploadFailed(o) /\ ~UploadSucceeded(o)
          \/ ~UploadStep(o)]_vars

C11_Witness ==
    /\ pcStartup = "done"
    /\ DOMAIN documents = {"d1", "d2"}
    /\ \A k \in DOMAIN documents : documents[k] \in Metas
    /\ documents["d1"] # documents["d2"]
    /\ uploadStatus = "Upload failed"

(* C12: a confirmed delete removes the doc_id from the registry when the    *)
(* backend responds with success; when the request fails or the status is   *)
(* not a success the registry is unchanged and an alert shows the error.    *)
C12_DeleteRemovesOnSuccessOnly ==
    [][\A i \in 1..Len(docPending), st \in DeleteOutcomes :
          \/ /\ st = "ok"
             /\ IsRemoval(documents', documents, docPending[i].doc_id)
          \/ /\ st # "ok"
             /\ documents' = documents
             /\ lastAlert' \in DeleteErrorAlerts
          \/ ~DeleteResponse(i, st)]_vars

C12_Witness ==
    /\ uploadStatus = "Uploaded successfully"
    /\ acked = {}
    /\ documents = EmptyObject
    /\ lastAlert = "Error deleting document: Delete failed"

(* C13: a delete the user does not confirm issues no request and leaves the *)
(* registry unchanged; a delete of an id that is not in the registry leaves *)
(* the registry unchanged whatever the backend answers.                     *)
C13_DeleteWithoutEffect ==
    [][/\ \A d \in DocIds :
             DeleteDocument(d, FALSE) => UNCHANGED <<documents, docPending>>
       /\ \A i \in 1..Len(docPending), st \in DeleteOutcomes :
             \/ documents' = documents
             \/ docPending[i].doc_id \in DOMAIN documents
             \/ ~DeleteResponse(i, st)]_vars

C13_Witness ==
    /\ \E i \in 1..Len(docPending) :
          docPending[i] = [op |-> "delete", doc_id |-> "d1"]
    /\ DOMAIN documents = {"d2"}
    /\ documentsList = "items"

(* C16: when an upload fails with a non-2xx response whose body carries a   *)
(* detail message, the status shown to the user is that detail message.     *)
C16_UploadDetailSurfaced ==
    [][\A o \in UploadOutcomes :
          (/\ o.status = "notok"
           /\ o.json = "object"
           /\ "detail" \in DOMAIN o.data
           /\ UploadStep(o)) => uploadStatus' = o.data.detail]_vars

(* C20: after the startup probe the health indicator is online exactly when *)
(* the backend answered with a 2xx status, whatever the body, and offline   *)
(* exactly when the request failed at the network level or the status was   *)
(* not 2xx.                                                                 *)
C20_OnlineIffSuccessStatus ==
    [][\A o \in ProbeOutcomes :
          StartupResume(o) =>
             /\ (backendStatus' = "Online") <=> (o.status = "ok")
             /\ (backendStatus' = "Offline") <=> (o.status \in {"neterr", "notok"})]_vars

\* the entry of k is the same in q as in p
SameEntry(q, p, k) ==
    /\ (k \in DOMAIN q) <=> (k \in DOMAIN p)
    /\ k \in DOMAIN p => q[k] = p[k]

\* this step issues or resolves an explanation
ExplainStep == ExplainResolve \/ \E d \in DocIds : ExplainDocument(d)

C15_ExplainLeavesRegistry ==
    [][documents' = documents \/ ~ExplainStep]_vars

C15_Witness ==
    /\ explanationOutput = "Failed to explain document: Explanation failed"
    /\ docPending = <<[op |-> "explain", doc_id |-> "d2"]>>
    /\ DOMAIN documents = {"d1"}

----------------------------------------------------------------------------
(* Vocabulary of the export properties *)

NothingToExport == "No conversation to export."

ExportFailureAlerts ==
    {"Failed to export chat.", "Export failed: Failed to fetch"}

\* nothing but the alert and the list of outstanding exports changes
OnlyAlertAndExportPending ==
    UNCHANGED <<chatVars, pcStartup, healthVars, tabVars, documents, documentsList,
                docPending, uploadStatus, statusTimers, explanationOutput,
                acked, downloads>>

(* C17: an export handled while the conversation id is null shows the       *)
(* nothing-to-export notice, issues no request of any kind and hands over   *)
(* no file.                                                                 *)
C17_ExportWithoutConversation ==
    [][\/ currentConversationId # Null
       \/ ~ExportChat
       \/ /\ lastAlert' = NothingToExport
          /\ exportPending' = exportPending
          /\ chatPending' = chatPending
          /\ docPending' = docPending
          /\ downloads' = downloads]_vars

C17_Witness ==
    /\ pcStartup = "done"
    /\ currentConversationId = Null
    /\ lastAlert = NothingToExport
    /\ exportPending = <<>>
    /\ downloads = <<>>
    /\ Len(messages) = 2

(* C18: an export with a non-null id issues exactly one request; when that  *)
(* request fails at the network level or with a non-success status, no file *)
(* is handed over, an alert is shown, nothing else changes, and no further  *)
(* request is issued.                                                       *)
C18_FailedExportOnlyAlerts ==
    [][/\ \/ currentConversationId = Null
          \/ ~ExportChat
          \/ /\ exportPending' = Append(exportPending, [id |-> currentConversationId])
             /\ UNCHANGED lastAlert
             /\ OnlyAlertAndExportPending
       /\ \A i \in 1..Len(exportPending), o \in {"neterr", "notok"} :
             \/ ~ExportResponse(i, o)
             \/ /\ downloads' = downloads
                /\ lastAlert' \in ExportFailureAlerts
                /\ exportPending' = RemoveAt(exportPending, i)
                /\ OnlyAlertAndExportPending]_vars

C18_Witness ==
    /\ currentConversationId \in ConvIds
    /\ lastAlert \in ExportFailureAlerts
    /\ exportPending = <<>>
    /\ downloads = <<>>

(* C19: a successful export hands over a file named conversation_<id>.md    *)
(* where <id> is the conversation id the export request was issued for,     *)
(* also when a new conversation or a chat response has changed the id of    *)
(* the session while the request was outstanding.                           *)
C19_FileNamedAfterRequestedId ==
    [][\A i \in 1..Len(exportPending) :
          ExportResponse(i, "ok") =>
             downloads' = Append(downloads,
                                 <<"conversation_", exportPending[i].id, ".md">>)]_vars

----------------------------------------------------------------------------
(* Startup after a failed probe, and responses that outlive their session *)

\* the probe request failed at the network level
ProbeFailed(o) == o.status = "neterr"

(* C21: when the startup probe fails, the step that handles the failure     *)
(* shows the health indicator offline and the model field as the literal    *)
(* placeholder "-", and, as after every answer to the probe, startup runs   *)
(* to its end in that step: the registry is empty, the conversation id is   *)
(* null and the session has no messages.                                    *)
C21_FailedProbeIsContained ==
    [][\/ pcStartup' = pcStartup
       \/ /\ pcStartup' = "done"
          /\ currentConversationId' = Null
          /\ messages' = <<>>
          /\ documents' = EmptyObject
          /\ \A o \in ProbeOutcomes :
                (ProbeFailed(o) /\ StartupResume(o)) =>
                   /\ backendStatus' = "Offline"
                   /\ modelStatus' = "-"]_vars

C21_Witness ==
    /\ pcStartup = "done"
    /\ backendStatus = "Offline"
    /\ modelStatus = "-"
    /\ currentConversationId = Null
    /\ messages = <<>>
    /\ chatPending = <<>>
    /\ documents = EmptyObject

(* C23: a response to a send that was issued before a reset has no effect   *)
(* on the session the reset created: it does not set the conversation id    *)
(* and it appends nothing to the messages.                                  *)
C23_StaleResponseIgnored ==
    [][\A i \in 1..Len(chatPending), o \in ChatOutcomes :
          (chatPending[i].stale /\ ChatResponse(i, o)) =>
             /\ currentConversationId' = currentConversationId
             /\ messages' = messages]_vars

----------------------------------------------------------------------------
(* Tabs *)

\* this step handles a click on the top button or on the sidebar item of t
TabSwitch(t) == TabButtonClick(t) \/ SidebarItemClick(t)

====
